---- MODULE Spec2Model ----
(***************************************************************************)
(* Webhook reconciliation of nextjs-nango-plugin: handleWebhook            *)
(* (src/lib/webhooks/handler.ts) driven against an optional Connection     *)
(* Store, an optional Secrets Store and the optional NangoService gateway. *)
(* Every await of the handler is one step of a delivery; a store call      *)
(* takes effect and answers in that step.  SpecRoutes adds the DELETE      *)
(* connections route, SpecGateway is NangoService (src/lib/nango/client.ts)*)
(* called on its own, SpecNormalizer is convertNangoCredentials applied to *)
(* one raw credentials object.  SpecConcurrent interleaves two deliveries  *)
(* of one creation event against a store with a unique index,              *)
(* SpecSequence handles deliveries in order against a store that answers   *)
(* every call, SpecFormatted delivers one JSON value in two layouts.       *)
(***************************************************************************)
EXTENDS Naturals, Sequences, FiniteSets, TLC

\* ------------------------------------------------------------------------
\* Bounds
\* ------------------------------------------------------------------------

\* A new delivery is accepted only while the Connection Store holds fewer
\* records than this.
MaxConns == 2

\* ------------------------------------------------------------------------
\* Values
\* ------------------------------------------------------------------------

\* JavaScript undefined / null (an absent optional field, a null argument).
Undef == "undefined"

\* A JavaScript string is truthy unless it is absent or empty.
Truthy(s) == s \notin {Undef, ""}

\* The deliveries that can be in flight; Spec has one at a time.
Procs == {1, 2}
Solo == {1}

ConnIds == {"conn-123"}
ProviderConfigKey == "slack-prod"
Provider == "slack"

\* The two revisions of lib/webhooks/handler.ts in the repository: "data"
\* stores event.data.credentials, "gateway" fetches them from NangoService.
Revisions == {"data", "gateway"}

\* ------------------------------------------------------------------------
\* Request bodies
\* ------------------------------------------------------------------------

\* A parsed JSON object, with the fields WebhookEventSchema knows.
\* endUserId = Undef stands for an absent endUser object; credentials is
\* event.data.credentials.
Obj(t, op, su, id, pck, pr, uid, org, env, cr) ==
  [type |-> t, operation |-> op, success |-> su, connectionId |-> id,
   providerConfigKey |-> pck, provider |-> pr, endUserId |-> uid,
   organizationId |-> org, environment |-> env, credentials |-> cr]

\* A raw credentials object of the provider API. present = FALSE stands for
\* no object at all; a field that is Undef is absent; raw is a map, kept as
\* a set of <<key, value>> pairs, and hasRaw says whether the object has one.
RawCred(t, at, rt, ex, tok, ot, ots, ak, un, pw, hr, rw) ==
  [present |-> TRUE, type |-> t, access_token |-> at, refresh_token |-> rt,
   expires_at |-> ex, token |-> tok, oauth_token |-> ot,
   oauth_token_secret |-> ots, api_key |-> ak, username |-> un,
   password |-> pw, hasRaw |-> hr, raw |-> rw]

NoCredentials ==
  [RawCred(Undef, Undef, Undef, Undef, Undef, Undef, Undef, Undef, Undef, Undef,
           FALSE, {}) EXCEPT !.present = FALSE]

EventCredentials ==
  RawCred("OAUTH2", "token-abc", "refresh-xyz", "2025-01-01T00:00:00.000Z",
          Undef, Undef, Undef, Undef, Undef, Undef, FALSE, {})

\* The endUser object of an event and its environment: absent, an empty
\* endUserId, an owner alone, an owner with an empty environment string, an
\* owner with organization and environment.
EndUsers ==
  { <<Undef, Undef, Undef>>, <<"", Undef, "production">>,
    <<"user-123", Undef, Undef>>, <<"user-123", Undef, "">>,
    <<"user-123", "org-456", "production">> }

\* Only the auth/creation/success branch reads endUser, environment and data;
\* the other events carry none of them.
CreationObjs ==
  { Obj("auth", "creation", "true", id, ProviderConfigKey, Provider, u[1], u[2], u[3], cr) :
      id \in ConnIds, u \in EndUsers, cr \in {NoCredentials, EventCredentials} }

\* Every type/operation/success combination of auth events; sync and
\* connection.deleted events with and without an operation.
PlainObjs ==
  ({ Obj("auth", op, su, id, ProviderConfigKey, Provider, Undef, Undef, Undef, NoCredentials) :
      op \in {"creation", "deletion", "update", Undef},
      su \in {"true", "false", Undef},
      id \in ConnIds }
   \ CreationObjs)
  \cup
  { Obj(t, op, su, id, ProviderConfigKey, Provider, Undef, Undef, Undef, NoCredentials) :
      t \in {"sync", "connection.deleted"},
      op \in {"deletion", Undef},
      su \in {"true", "false", Undef},
      id \in ConnIds }

\* Objects WebhookEventSchema rejects.
InvalidObjs ==
  { Obj("invalid.type", Undef, Undef, "conn-123", ProviderConfigKey, Provider,
        Undef, Undef, Undef, NoCredentials),
    Obj(Undef, Undef, Undef, Undef, Undef, Undef, Undef, Undef, Undef, NoCredentials),
    Obj("auth", "creation", "true", Undef, ProviderConfigKey, Provider,
        "user-123", Undef, Undef, NoCredentials),
    Obj("sync", Undef, "true", "conn-123", Undef, Provider,
        Undef, Undef, Undef, NoCredentials),
    Obj("sync", Undef, "true", "conn-123", ProviderConfigKey, Undef,
        Undef, Undef, Undef, NoCredentials),
    Obj("auth", "refresh", "true", "conn-123", ProviderConfigKey, Provider,
        Undef, Undef, Undef, NoCredentials),
    Obj("connection.expired", Undef, Undef, "conn-123", ProviderConfigKey, Provider,
        Undef, Undef, Undef, NoCredentials) }

Objs == CreationObjs \cup PlainObjs \cup InvalidObjs

NoObj == Obj(Undef, Undef, Undef, Undef, Undef, Undef, Undef, Undef, Undef, NoCredentials)

\* How the text of a body is laid out: JSON.stringify(value), or the same
\* value written with spaces and line breaks between its tokens.
Formats == {"compact", "indented"}

\* A request body: text that is JSON for obj, or text that is not JSON.
\* JSON.parse(body) gives obj whatever the layout of the text.
Bodies ==
  [json : {TRUE}, obj : Objs, text : {"compact"}]
    \cup [json : {FALSE}, obj : {NoObj}, text : {"compact"}]

NoBody == [json |-> FALSE, obj |-> NoObj, text |-> "compact"]

\* The x-nango-signature header: absent, sixty-four zeros, or the signature
\* the provider computes for an object.
NoSignature == [given |-> FALSE, zeros |-> FALSE, over |-> NoObj]
ZeroSignature == [given |-> TRUE, zeros |-> TRUE, over |-> NoObj]
Sign(o) == [given |-> TRUE, zeros |-> FALSE, over |-> o]

SignaturesFor(body) == {NoSignature, ZeroSignature, Sign(body.obj)}

\* nangoService.client.verifyWebhookSignature(signature, parsedBody)
verifyWebhookSignature(signature, parsedBody) ==
  /\ signature.given
  /\ ~signature.zeros
  /\ signature.over = parsedBody

\* WebhookEventSchema with connectionId, providerConfigKey and provider optional.
WebhookEventSchema_NothingRequired(o) ==
  /\ o.type \in {"sync", "auth", "connection.deleted"}
  /\ o.operation \in {"creation", "deletion", "update", Undef}
  /\ o.success \in {"true", "false", Undef}

\* WebhookEventSchema.parse succeeds
WebhookEventSchema(o) ==
  /\ o.type \in {"sync", "auth", "connection.deleted"}
  /\ o.operation \in {"creation", "deletion", "update", Undef}
  /\ o.success \in {"true", "false", Undef}
  /\ o.connectionId # Undef
  /\ o.providerConfigKey # Undef
  /\ o.provider # Undef

\* ------------------------------------------------------------------------
\* Credential normalizer
\* ------------------------------------------------------------------------

\* expires_at values that are JavaScript Date objects, and Date.toISOString.
DateValues == {"Date(1735689600000)"}
toISOString(d) == IF d = "Date(1735689600000)" THEN "2025-01-01T00:00:00.000Z" ELSE d

CredKeys == {"type", "access_token", "refresh_token", "expires_at", "token",
             "oauth_token", "oauth_token_secret", "api_key", "username", "password"}

\* The own enumerable properties of a raw credentials object, as pairs; its
\* raw property, when it has one, is the object being assigned into.
OwnProps(c) ==
  { <<k, c[k]>> : k \in { x \in CredKeys : c[x] # Undef } }
  \cup (IF c.hasRaw THEN {<<"raw", "[Circular]">>} ELSE {})

\* Object.assign(target, source) on maps kept as sets of pairs.
ObjectAssign(target, source) ==
  { p \in target : \A q \in source : q[1] # p[1] } \cup source

\* { ...target, k: v } : an explicit key is set even when its value is undefined.
Spread(target, k, v) == { p \in target : p[1] # k } \cup {<<k, v>>}

Credentials(t, at, rt, ex, ak, un, pw, rw) ==
  [type |-> t, access_token |-> at, refresh_token |-> rt, expires_at |-> ex,
   api_key |-> ak, username |-> un, password |-> pw, raw |-> rw]

\* ExpiresAt copying the value as it was given.
ExpiresAt_AsGiven(c) == c.expires_at

ExpiresAt(c) == IF c.expires_at \in DateValues THEN toISOString(c.expires_at) ELSE c.expires_at

convertNangoCredentials(c) ==
  LET raw0 == IF c.hasRaw THEN c.raw ELSE {} IN
  CASE c.type = "OAUTH2" ->
         Credentials("OAUTH2", c.access_token, c.refresh_token, ExpiresAt(c),
                     Undef, Undef, Undef, raw0)
    [] c.type = "OAUTH2_CC" ->
         Credentials("OAUTH2", c.token, Undef, ExpiresAt(c), Undef, Undef, Undef, raw0)
    [] c.type = "OAUTH1" ->
         Credentials("OAUTH1", c.oauth_token, Undef, Undef, Undef, Undef, Undef,
                     Spread(Spread(raw0, "oauth_token", c.oauth_token),
                            "oauth_token_secret", c.oauth_token_secret))
    [] c.type = "API_KEY" ->
         Credentials("API_KEY", Undef, Undef, Undef, c.api_key, Undef, Undef, raw0)
    [] c.type = "BASIC" ->
         Credentials("BASIC", Undef, Undef, Undef, Undef, c.username, c.password, raw0)
    [] OTHER ->
         Credentials("CUSTOM", Undef, Undef, Undef, Undef, Undef, Undef,
                     ObjectAssign(raw0, OwnProps(c)))

\* What client.getConnection can answer with for a connection.
GatewayCredentials ==
  { RawCred("OAUTH2", "gho_xxx", "ghr_xxx", "Date(1735689600000)",
            Undef, Undef, Undef, Undef, Undef, Undef, FALSE, {}),
    RawCred("JWT", Undef, Undef, Undef, "jwt-token", Undef, Undef, Undef, Undef, Undef,
            FALSE, {}) }

\* ------------------------------------------------------------------------
\* State
\* ------------------------------------------------------------------------

VARIABLES
  cfg,          \* the collaborators handleWebhook is given, and its revision
  connections,  \* Connection Store: the Connection records, in insertion order
  secrets,      \* Secrets Store: the ConnectionSecret records
  pc,           \* per delivery: the await the handler is at
  req,          \* per delivery: the body and signature received
  credentials,  \* per delivery: the credentials fetched from the gateway
  log,          \* per delivery: the collaborator calls made, in order
  res,          \* per delivery: what handleWebhook returned or threw
  prev,         \* per delivery: the calls of the delivery this one repeats
  response,     \* per delivery: the HTTP response of the POST webhooks route
  gw,           \* NangoService: the method calls made so far and how each ended
  nangoCredentials,  \* convertNangoCredentials: its argument
  normalized         \* convertNangoCredentials: its return value

\* The state of NangoService callers and of the normalizer on its own.
lib == <<gw, nangoCredentials, normalized>>

\* The state of the webhook route and its stores.
webhook == <<cfg, connections, secrets, pc, req, credentials, log, res, prev, response>>

vars == <<webhook, lib>>

\* connectionService is absent, present without the optional getConnection,
\* or present with it.
\* The store is one any of whose calls may fail and whose createConnection
\* appends whatever it holds ("unreliable"), one that answers every call and
\* appends whatever it holds ("appending"), or one that answers every call
\* and rejects createConnection for a connection_id it holds ("unique").
Configs ==
  [revision : Revisions, connectionService : {"none", "noGet", "full"},
   secretsService : BOOLEAN, nangoService : BOOLEAN, store : {"unreliable"}]

Pending == [status |-> "pending", success |-> FALSE, eventType |-> Undef,
            operation |-> Undef, error |-> Undef]

\* return { success: true, eventType: event.type, operation: event.operation }
Returned(e) == [status |-> "returned", success |-> TRUE, eventType |-> e.type,
                operation |-> e.operation, error |-> Undef]

\* throw error (after console.error in the outer catch)
Thrown(msg) == [status |-> "threw", success |-> FALSE, eventType |-> Undef,
                operation |-> Undef, error |-> msg]

NoPrev == [is |-> FALSE, log |-> <<>>]

\* jsonResponse(body, { status }); status 0 while nothing has been answered.
NoResponse == [status |-> 0, body |-> Pending]
jsonResponse(body, status) == [status |-> status, body |-> body]

\* convertNangoCredentials has not returned yet.
NotConverted == [type |-> Undef, access_token |-> Undef, refresh_token |-> Undef,
                 expires_at |-> Undef, api_key |-> Undef, username |-> Undef,
                 password |-> Undef, raw |-> {}]

\* No webhook has been delivered: the stores are empty.
NothingDelivered ==
  /\ connections = <<>>
  /\ secrets = {}
  /\ pc = [p \in Procs |-> "idle"]
  /\ req = [p \in Procs |-> [body |-> NoBody, signature |-> NoSignature]]
  /\ credentials = [p \in Procs |-> NoCredentials]
  /\ log = [p \in Procs |-> <<>>]
  /\ res = [p \in Procs |-> Pending]
  /\ prev = [p \in Procs |-> NoPrev]
  /\ response = [p \in Procs |-> NoResponse]

InitWebhook ==
  /\ cfg \in Configs
  /\ NothingDelivered

Init ==
  /\ InitWebhook
  /\ gw = <<>>
  /\ nangoCredentials = NoCredentials
  /\ normalized = NotConverted

\* ------------------------------------------------------------------------
\* Connection Store and Secrets Store
\* ------------------------------------------------------------------------

Call(name, args, ok) == [call |-> name, args |-> args, ok |-> ok]

\* StoreAnswer of a store that enforces nothing.
StoreAnswer_Any(c, ok, can) == TRUE

\* Whether the Connection Store may answer a call with ok, `can` saying
\* whether the call can be carried out on what the store holds.
StoreAnswer(c, ok, can) == c.store \in {"unique", "appending"} => ok = can

\* Metadata with the environment copied whenever the event has the field.
Metadata_WhenPresent(e) ==
  IF e.environment # Undef THEN {<<"environment", e.environment>>} ELSE {}

\* metadata: {} or { environment }
Metadata(e) == IF Truthy(e.environment) THEN {<<"environment", e.environment>>} ELSE {}

Connection(provider, connectionId, ownerId, organizationId, metadata) ==
  [provider |-> provider, connection_id |-> connectionId, owner_id |-> ownerId,
   organization_id |-> organizationId, status |-> "ACTIVE", metadata |-> metadata]

Matching(conns, id) == { i \in 1..Len(conns) : conns[i].connection_id = id }

Exists(conns, id) == Matching(conns, id) # {}

\* Whether the store takes a new record for id: a unique index on
\* connection_id refuses a second one, a plain map does not.
CanCreate(c, conns, id) == c.store = "unique" => ~Exists(conns, id)

First(conns, id) == CHOOSE i \in Matching(conns, id) : \A j \in Matching(conns, id) : i <= j

\* SetStatus removing the record that is to become INACTIVE.
SetStatus_HardDelete(conns, id, status) ==
  IF status = "INACTIVE"
  THEN SelectSeq(conns, LAMBDA c : c.connection_id # id)
  ELSE [conns EXCEPT ![First(conns, id)].status = status]

\* updateConnectionStatus on a store that finds the record: the first match
\* gets the status.
SetStatus(conns, id, status) ==
  [conns EXCEPT ![First(conns, id)].status = status]

ConnectionSecret(connectionId, provider, creds, ownerId, organizationId) ==
  [connection_id |-> connectionId, provider |-> provider, credentials |-> creds,
   owner_id |-> ownerId, organization_id |-> organizationId]

\* secretsStore.set(connectionId, secret)
PutSecret(store, secret) ==
  { s \in store : s.connection_id # secret.connection_id } \cup {secret}

\* secretsStore.delete(connectionId)
RemoveSecret(store, id) == { s \in store : s.connection_id # id }

\* ------------------------------------------------------------------------
\* handleWebhook
\* ------------------------------------------------------------------------

Event(p) == req[p].body.obj

\* CredentialStep with the gateway asked for credentials nobody will store.
CredentialStep_NoSecretsCheck(c, e) ==
  IF c.revision = "data"
  THEN IF c.secretsService /\ e.credentials.present THEN "storeSecret" ELSE "done"
  ELSE IF c.nangoService THEN "nangoGetConnection" ELSE "done"

\* The step after the Connection Store part of the auth-creation branch:
\* revision "data" stores event.data.credentials when a Secrets Store is
\* there, revision "gateway" asks NangoService when both are there.
CredentialStep(c, e) ==
  IF c.revision = "data"
  THEN IF c.secretsService /\ e.credentials.present THEN "storeSecret" ELSE "done"
  ELSE IF c.secretsService /\ c.nangoService THEN "nangoGetConnection" ELSE "done"

\* AuthCreation without the owner check.
AuthCreation_NoOwnerCheck(c, e) ==
  IF c.connectionService = "full" THEN "getConnection"
  ELSE IF c.connectionService = "noGet" THEN "createConnection"
  ELSE CredentialStep(c, e)

\* case 'auth' with operation creation and success: owner, then stores.
AuthCreation(c, e) ==
  IF ~Truthy(e.endUserId) THEN "done"
  ELSE IF c.connectionService = "full" THEN "getConnection"
  ELSE IF c.connectionService = "noGet" THEN "createConnection"
  ELSE CredentialStep(c, e)

\* Dispatch setting ERROR for every auth event that is not a successful creation.
Dispatch_NoSuccessTest(c, e) ==
  CASE e.type = "auth" ->
         IF e.operation = "creation" /\ e.success = "true" THEN AuthCreation(c, e)
         ELSE IF c.connectionService # "none" THEN "authFailed"
         ELSE "done"
    [] e.type = "connection.deleted" ->
         IF c.connectionService # "none" THEN "deletedStatus"
         ELSE IF c.secretsService THEN "deleteSecret"
         ELSE "done"
    [] e.type = "sync" ->
         IF c.connectionService # "none" THEN "syncStatus" ELSE "done"

\* Dispatch taking only success: false for an auth failure.
Dispatch_FalseOnly(c, e) ==
  CASE e.type = "auth" ->
         IF e.operation = "creation" /\ e.success = "true" THEN AuthCreation(c, e)
         ELSE IF e.success = "false" /\ c.connectionService # "none" THEN "authFailed"
         ELSE "done"
    [] e.type = "connection.deleted" ->
         IF c.connectionService # "none" THEN "deletedStatus"
         ELSE IF c.secretsService THEN "deleteSecret"
         ELSE "done"
    [] e.type = "sync" ->
         IF c.connectionService # "none" THEN "syncStatus" ELSE "done"

\* switch (event.type): the first await the handler reaches, "done" if none.
Dispatch(c, e) ==
  CASE e.type = "auth" ->
         IF e.operation = "creation" /\ e.success = "true" THEN AuthCreation(c, e)
         ELSE IF e.success # "true" /\ c.connectionService # "none" THEN "authFailed"
         ELSE "done"
    [] e.type = "connection.deleted" ->
         IF c.connectionService # "none" THEN "deletedStatus"
         ELSE IF c.secretsService THEN "deleteSecret"
         ELSE "done"
    [] e.type = "sync" ->
         IF c.connectionService # "none" THEN "syncStatus" ELSE "done"

\* SignatureAccepted verifying every signature given, verifier or not.
SignatureAccepted_AlwaysVerify(c, signature, parsedBody) ==
  IF signature.given
  THEN verifyWebhookSignature(signature, parsedBody)
  ELSE TRUE

\* if (nangoService && signature) verifyWebhookSignature(...) else skip
SignatureAccepted(c, signature, parsedBody) ==
  IF c.nangoService /\ signature.given
  THEN verifyWebhookSignature(signature, parsedBody)
  ELSE TRUE

\* Rejection with the schema parse ahead of the signature check.
Rejection_SchemaFirst(c, body, signature) ==
  IF ~body.json THEN "SyntaxError"
  ELSE IF ~WebhookEventSchema(body.obj) THEN "ZodError"
  ELSE IF ~SignatureAccepted(c, signature, body.obj) THEN "Invalid webhook signature"
  ELSE Undef

\* JSON.parse, signature check, schema parse: the error thrown, Undef if none.
Rejection(c, body, signature) ==
  IF ~body.json THEN "SyntaxError"
  ELSE IF ~SignatureAccepted(c, signature, body.obj) THEN "Invalid webhook signature"
  ELSE IF ~WebhookEventSchema(body.obj) THEN "ZodError"
  ELSE Undef

\* Move delivery p on to `target`; reaching "done" is the return statement.
Goto(p, target, e) ==
  /\ pc' = [pc EXCEPT ![p] = target]
  /\ res' = [res EXCEPT ![p] = IF target = "done" THEN Returned(e) ELSE Pending]

\* An error that reaches the outer catch is logged and thrown again.
Throw(p, msg) ==
  /\ pc' = [pc EXCEPT ![p] = "threw"]
  /\ res' = [res EXCEPT ![p] = Thrown(msg)]

\* Move on to `target`, where "threw" is an error leaving the handler.
Step(p, target, e, msg) ==
  IF target = "threw" THEN Throw(p, msg) ELSE Goto(p, target, e)

Record(p, name, args, ok) == log' = [log EXCEPT ![p] = Append(@, Call(name, args, ok))]

\* The synchronous head of handleWebhook, up to its first await.
Receive(p, body, signature) ==
  /\ req' = [req EXCEPT ![p] = [body |-> body, signature |-> signature]]
  /\ credentials' = [credentials EXCEPT ![p] = NoCredentials]
  /\ log' = [log EXCEPT ![p] = <<>>]
  /\ LET err == Rejection(cfg, body, signature) IN
       IF err # Undef THEN Throw(p, err)
       ELSE Step(p, Dispatch(cfg, body.obj), body.obj, "unreachable")
  /\ response' = [response EXCEPT ![p] = NoResponse]
  /\ UNCHANGED <<lib, cfg, connections, secrets>>

Finished(p) == pc[p] \in {"done", "threw"}

\* The provider API posts a webhook.
Deliver(p) ==
  /\ pc[p] = "idle"
  /\ Len(connections) < MaxConns
  /\ \E body \in Bodies : \E signature \in SignaturesFor(body) :
       Receive(p, body, signature)
  /\ prev' = [prev EXCEPT ![p] = NoPrev]

\* The provider API posts the same webhook once more.
Redeliver(p) ==
  /\ pc[p] \in {"done", "threw"}
  /\ ~prev[p].is
  /\ Len(connections) < MaxConns
  /\ Receive(p, req[p].body, req[p].signature)
  /\ prev' = [prev EXCEPT ![p] = [is |-> TRUE, log |-> log[p]]]

\* return jsonResponse(result), or the catch of the POST route:
\* jsonResponse({ error: error.message || 'Internal server error' }, { status: 500 })
RouteResponse(r) ==
  IF r.status = "returned" THEN jsonResponse(r, 200)
  ELSE jsonResponse([r EXCEPT !.error = IF Truthy(@) THEN @ ELSE "Internal server error"], 500)

\* The route answers the request and the delivery is over.
Respond(p) ==
  /\ Finished(p)
  /\ response' = [response EXCEPT ![p] = RouteResponse(res[p])]
  /\ pc' = [pc EXCEPT ![p] = "idle"]
  /\ req' = [req EXCEPT ![p] = [body |-> NoBody, signature |-> NoSignature]]
  /\ credentials' = [credentials EXCEPT ![p] = NoCredentials]
  /\ log' = [log EXCEPT ![p] = <<>>]
  /\ res' = [res EXCEPT ![p] = Pending]
  /\ prev' = [prev EXCEPT ![p] = NoPrev]
  /\ UNCHANGED <<lib, cfg, connections, secrets>>

\* await connectionService.getConnection(event.connectionId)
\* AfterGetConnection without the idempotency check.
AfterGetConnection_AlwaysCreate(ok, existing) ==
  IF ~ok THEN "threw" ELSE "createConnection"

\* A lookup that fails leaves the handler; a connection found is only updated.
AfterGetConnection(ok, existing) ==
  IF ~ok THEN "threw"
  ELSE IF existing THEN "updateExisting"
  ELSE "createConnection"

GetConnection(p) ==
  /\ pc[p] = "getConnection"
  /\ LET e == Event(p) IN
     \E ok \in BOOLEAN :
       /\ StoreAnswer(cfg, ok, TRUE)
       /\ Record(p, "getConnection", <<e.connectionId>>, ok)
       /\ Step(p, AfterGetConnection(ok, Exists(connections, e.connectionId)), e,
               "getConnection failed")
  /\ UNCHANGED <<lib, cfg, connections, secrets, req, credentials, prev, response>>

\* A call of connectionService.updateConnectionStatus: it fails when the
\* store has no such connection, and may fail anyway.
UpdateConnectionStatus(p, id, status, ok) ==
  /\ ok => Exists(connections, id)
  /\ StoreAnswer(cfg, ok, Exists(connections, id))
  /\ Record(p, "updateConnectionStatus", <<id, status>>, ok)
  /\ connections' = IF ok THEN SetStatus(connections, id, status) ELSE connections

\* The update of an existing connection is outside every try block.
AfterUpdateExisting(ok) == IF ok THEN "done" ELSE "threw"

\* Connection exists, just update status; break
UpdateExisting(p) ==
  /\ pc[p] = "updateExisting"
  /\ LET e == Event(p) IN
     \E ok \in BOOLEAN :
       /\ UpdateConnectionStatus(p, e.connectionId, "ACTIVE", ok)
       /\ Step(p, AfterUpdateExisting(ok), e, "updateConnectionStatus failed")
  /\ UNCHANGED <<lib, cfg, secrets, req, credentials, prev, response>>

\* AfterCreateConnection with the creation error thrown on.
AfterCreateConnection_Rethrow(c, e, ok) == IF ok THEN CredentialStep(c, e) ELSE "threw"

\* catch (error) of createConnection: the fallback update comes next.
AfterCreateConnection(c, e, ok) == IF ok THEN CredentialStep(c, e) ELSE "updateFallback"

\* AfterUpdateFallback giving up the branch when the fallback update fails.
AfterUpdateFallback_GiveUp(c, e, ok) == IF ok THEN CredentialStep(c, e) ELSE "done"

\* catch (updateError) of the fallback: logged, the branch goes on.
AfterUpdateFallback(c, e, ok) == CredentialStep(c, e)

\* try { await connectionService.createConnection(...) } catch { fallback }
CreateConnection(p) ==
  /\ pc[p] = "createConnection"
  /\ LET e == Event(p) IN
     \E ok \in BOOLEAN :
       /\ StoreAnswer(cfg, ok, CanCreate(cfg, connections, e.connectionId))
       /\ Record(p, "createConnection",
                 <<e.providerConfigKey, e.connectionId, e.endUserId,
                   e.organizationId, Metadata(e)>>, ok)
       /\ connections' =
            IF ok THEN Append(connections,
                              Connection(e.providerConfigKey, e.connectionId, e.endUserId,
                                         e.organizationId, Metadata(e)))
            ELSE connections
       /\ Step(p, AfterCreateConnection(cfg, e, ok), e, "createConnection failed")
  /\ UNCHANGED <<lib, cfg, secrets, req, credentials, prev, response>>

\* If creation fails, try updating status as fallback; its failure is logged.
UpdateFallback(p) ==
  /\ pc[p] = "updateFallback"
  /\ LET e == Event(p) IN
     \E ok \in BOOLEAN :
       /\ UpdateConnectionStatus(p, e.connectionId, "ACTIVE", ok)
       /\ Step(p, AfterUpdateFallback(cfg, e, ok), e, "updateConnectionStatus failed")
  /\ UNCHANGED <<lib, cfg, secrets, req, credentials, prev, response>>

\* NangoService.getConnection: the provider API's answer, or null when the
\* client call fails (the error is caught there).
NangoAnswers ==
  {NoCredentials} \cup GatewayCredentials

\* if (connection && connection.credentials)
AfterNangoGetConnection(found, c) == IF found /\ c.present THEN "storeSecret" ELSE "done"

\* const connection = await nangoService.getConnection(connectionId, providerConfigKey)
\* if (connection && connection.credentials) credentials = convertNangoCredentials(...)
NangoGetConnection(p) ==
  /\ pc[p] = "nangoGetConnection"
  /\ LET e == Event(p) IN
     \E found \in BOOLEAN : \E c \in NangoAnswers :
       /\ ~found => c = NoCredentials
       /\ Record(p, "nango.getConnection", <<e.connectionId, e.providerConfigKey>>, found)
       /\ credentials' = [credentials EXCEPT ![p] = c]
       /\ Step(p, AfterNangoGetConnection(found, c), e, "unreachable")
  /\ UNCHANGED <<lib, cfg, connections, secrets, req, prev, response>>

\* SecretToStore handing on the provider's credentials as they came.
SecretToStore_Raw(c, e, fetched) ==
  IF c.revision = "data" THEN e.credentials ELSE fetched

\* The credentials handed to storeSecret.
SecretToStore(c, e, fetched) ==
  IF c.revision = "data" THEN e.credentials ELSE convertNangoCredentials(fetched)

\* AfterStoreSecret with the storage error thrown on.
AfterStoreSecret_Rethrow(ok) == IF ok THEN "done" ELSE "threw"

\* catch (error) of storeSecret: logged.
AfterStoreSecret(ok) == "done"

\* try { await secretsService.storeSecret(...) } catch { console.error }
StoreSecret(p) ==
  /\ pc[p] = "storeSecret"
  /\ LET e == Event(p)
         cr == SecretToStore(cfg, e, credentials[p]) IN
     \E ok \in BOOLEAN :
       /\ Record(p, "storeSecret",
                 <<e.connectionId, e.provider, cr, e.endUserId, e.organizationId>>, ok)
       /\ secrets' =
            IF ok THEN PutSecret(secrets,
                                 ConnectionSecret(e.connectionId, e.provider, cr,
                                                  e.endUserId, e.organizationId))
            ELSE secrets
       /\ Step(p, AfterStoreSecret(ok), e, "storeSecret failed")
  /\ UNCHANGED <<lib, cfg, connections, req, credentials, prev, response>>

\* catch (error) of the ERROR update: the connection does not exist yet.
AfterAuthFailed(ok) == "done"

\* Auth failed: try { updateConnectionStatus(id, 'ERROR') } catch { console.log }
AuthFailed(p) ==
  /\ pc[p] = "authFailed"
  /\ LET e == Event(p) IN
     \E ok \in BOOLEAN :
       /\ UpdateConnectionStatus(p, e.connectionId, "ERROR", ok)
       /\ Step(p, AfterAuthFailed(ok), e, "updateConnectionStatus failed")
  /\ UNCHANGED <<lib, cfg, secrets, req, credentials, prev, response>>

\* case 'connection.deleted', after the status update has answered.
AfterDeletedStatus(c, ok) ==
  IF ~ok THEN "threw"
  ELSE IF c.secretsService THEN "deleteSecret"
  ELSE "done"

\* case 'connection.deleted': await updateConnectionStatus(id, 'INACTIVE')
DeletedStatus(p) ==
  /\ pc[p] = "deletedStatus"
  /\ LET e == Event(p) IN
     \E ok \in BOOLEAN :
       /\ UpdateConnectionStatus(p, e.connectionId, "INACTIVE", ok)
       /\ Step(p, AfterDeletedStatus(cfg, ok), e, "updateConnectionStatus failed")
  /\ UNCHANGED <<lib, cfg, secrets, req, credentials, prev, response>>

AfterDeleteSecret(ok) == IF ok THEN "done" ELSE "threw"

\* case 'connection.deleted': await secretsService.deleteSecret(id)
DeleteSecret(p) ==
  /\ pc[p] = "deleteSecret"
  /\ LET e == Event(p) IN
     \E ok \in BOOLEAN :
       /\ Record(p, "deleteSecret", <<e.connectionId>>, ok)
       /\ secrets' = IF ok THEN RemoveSecret(secrets, e.connectionId) ELSE secrets
       /\ Step(p, AfterDeleteSecret(ok), e, "deleteSecret failed")
  /\ UNCHANGED <<lib, cfg, connections, req, credentials, prev, response>>

\* SyncStatus with the two statuses exchanged.
SyncStatus_Swapped(e) == IF e.success = "true" THEN "ERROR" ELSE "ACTIVE"

\* case 'sync': ACTIVE after a successful sync, ERROR otherwise.
SyncStatus(e) == IF e.success = "true" THEN "ACTIVE" ELSE "ERROR"

AfterSyncUpdate(ok) == IF ok THEN "done" ELSE "threw"

SyncUpdate(p) ==
  /\ pc[p] = "syncStatus"
  /\ LET e == Event(p) IN
     \E ok \in BOOLEAN :
       /\ UpdateConnectionStatus(p, e.connectionId, SyncStatus(e), ok)
       /\ Step(p, AfterSyncUpdate(ok), e, "updateConnectionStatus failed")
  /\ UNCHANGED <<lib, cfg, secrets, req, credentials, prev, response>>

\* ------------------------------------------------------------------------
\* Specification
\* ------------------------------------------------------------------------

Next ==
  \E p \in Solo :
    \/ Deliver(p)
    \/ Redeliver(p)
    \/ Respond(p)
    \/ GetConnection(p)
    \/ UpdateExisting(p)
    \/ CreateConnection(p)
    \/ UpdateFallback(p)
    \/ NangoGetConnection(p)
    \/ StoreSecret(p)
    \/ AuthFailed(p)
    \/ DeletedStatus(p)
    \/ DeleteSecret(p)
    \/ SyncUpdate(p)

Spec == Init /\ [][Next]_vars

\* ------------------------------------------------------------------------
\* DELETE connections/{id}
\* ------------------------------------------------------------------------

\* connections.delete(id) of the first record with the connection id.
RemoveConnection(conns, id) ==
  IF Exists(conns, id)
  THEN SubSeq(conns, 1, First(conns, id) - 1)
         \o SubSeq(conns, First(conns, id) + 1, Len(conns))
  ELSE conns

\* The DELETE route: nango.deleteConnection when a providerConfigKey is given
\* (its failure is only logged), then service.deleteConnection(connectionId)
\* on the Connection Store; an error of the store is answered with status
\* 500. The route does not touch the Secrets Store.
DELETE ==
  /\ cfg.connectionService # "none"
  /\ \E id \in ConnIds : \E ok \in BOOLEAN :
       connections' = IF ok THEN RemoveConnection(connections, id) ELSE connections
  /\ UNCHANGED <<lib, cfg, secrets, pc, req, credentials, log, res, prev, response>>

\* Webhook deliveries together with the DELETE route.
NextRoutes == Next \/ DELETE

SpecRoutes == Init /\ [][NextRoutes]_vars

\* ------------------------------------------------------------------------
\* NangoService
\* ------------------------------------------------------------------------

\* The service is called at most this many times.
MaxGatewayCalls == 2

\* What a method call came to: the request handed to the Nango client (sent
\* says whether the client was called at all, failed whether its promise
\* rejected), and the value returned or the error thrown to the caller.
GatewayCall(method, request, sent, failed, status, value) ==
  [method |-> method, request |-> request, sent |-> sent, failed |-> failed,
   status |-> status, value |-> value]

\* Values a method returns; data holds the parts of an object or a list.
Value(kind, data) == [kind |-> kind, data |-> data]
Null == Value("null", <<>>)

\* The rejection of a client promise, as the caller of a method sees it.
ClientError == Value("error", <<"Request failed with status code 500">>)

\* createSession: the client's answer is awaited outside any try block.
createSession ==
  /\ Len(gw) < MaxGatewayCalls
  /\ \E userId \in {"user-123"} : \E organizationId \in {"org-456"} :
     \E integrationId \in {Undef, ProviderConfigKey} :
     \E userEmail \in {Undef, "", "user@example.com"} :
     \E failed \in BOOLEAN :
       LET allowedIntegrations == IF Truthy(integrationId) THEN <<integrationId>> ELSE <<Undef>>
           request == <<userId,
                        IF Truthy(userEmail) THEN userEmail ELSE userId \o "@app.local",
                        organizationId, allowedIntegrations>> IN
       gw' = Append(gw, IF failed
                     THEN GatewayCall("createSession", request, TRUE, TRUE, "threw", ClientError)
                     ELSE GatewayCall("createSession", request, TRUE, FALSE, "returned",
                               Value("session", <<"session-token", "2025-01-01T00:30:00.000Z">>)))
  /\ UNCHANGED <<webhook, nangoCredentials, normalized>>

\* The integrations.configs lists the provider answers with.
IntegrationConfigs ==
  { <<>>, <<[unique_key |-> "slack-prod", provider |-> "slack"]>>,
    <<[unique_key |-> "slack-prod", provider |-> "slack"],
      [unique_key |-> "github-prod", provider |-> "github"]>> }

\* listIntegrations: the client's answer is awaited outside any try block.
listIntegrations ==
  /\ Len(gw) < MaxGatewayCalls
  /\ \E configs \in IntegrationConfigs : \E failed \in BOOLEAN :
       gw' = Append(gw, IF failed
                     THEN GatewayCall("listIntegrations", <<>>, TRUE, TRUE, "threw", ClientError)
                     ELSE GatewayCall("listIntegrations", <<>>, TRUE, FALSE, "returned",
                               Value("integrations",
                                     [i \in 1..Len(configs) |->
                                        [id |-> configs[i].unique_key,
                                         provider |-> configs[i].provider]])))
  /\ UNCHANGED <<webhook, nangoCredentials, normalized>>

\* getConnection: try { return await client.getConnection(providerConfigKey,
\* connectionId) } catch { return null }
getConnection ==
  /\ Len(gw) < MaxGatewayCalls
  /\ \E connectionId \in ConnIds : \E c \in GatewayCredentials : \E failed \in BOOLEAN :
       LET request == <<ProviderConfigKey, connectionId>> IN
       gw' = Append(gw, IF failed
                     THEN GatewayCall("getConnection", request, TRUE, TRUE, "returned", Null)
                     ELSE GatewayCall("getConnection", request, TRUE, FALSE, "returned",
                               Value("connection", <<connectionId, c>>)))
  /\ UNCHANGED <<webhook, nangoCredentials, normalized>>

\* deleteConnection: the client is called only with a providerConfigKey;
\* true unless that call fails.
deleteConnection ==
  /\ Len(gw) < MaxGatewayCalls
  /\ \E connectionId \in ConnIds : \E providerConfigKey \in {Undef, "", ProviderConfigKey} :
     \E failed \in BOOLEAN :
       LET request == <<providerConfigKey, connectionId>>
           sent == Truthy(providerConfigKey) IN
       gw' = Append(gw, IF sent /\ failed
                     THEN GatewayCall("deleteConnection", request, TRUE, TRUE, "returned",
                               Value("false", <<>>))
                     ELSE GatewayCall("deleteConnection", request, sent, FALSE, "returned",
                               Value("true", <<>>)))
  /\ UNCHANGED <<webhook, nangoCredentials, normalized>>

\* triggerSync: try { return await client.triggerSync(providerConfigKey,
\* [syncName || 'default'], connectionId) } catch { return null }
triggerSync ==
  /\ Len(gw) < MaxGatewayCalls
  /\ \E connectionId \in ConnIds : \E syncName \in {Undef, "", "contacts"} :
     \E failed \in BOOLEAN :
       LET request == <<ProviderConfigKey,
                        <<IF Truthy(syncName) THEN syncName ELSE "default">>,
                        connectionId>> IN
       gw' = Append(gw, IF failed
                     THEN GatewayCall("triggerSync", request, TRUE, TRUE, "returned", Null)
                     ELSE GatewayCall("triggerSync", request, TRUE, FALSE, "returned",
                               Value("syncResult", <<"sync triggered">>)))
  /\ UNCHANGED <<webhook, nangoCredentials, normalized>>

\* The handler configured with the gateway alone.
GatewayOnly ==
  [revision |-> "gateway", connectionService |-> "none",
   secretsService |-> FALSE, nangoService |-> TRUE, store |-> "unreliable"]

\* A NangoService on its own: no webhook is in flight.
InitGateway ==
  /\ Init
  /\ cfg = GatewayOnly

NextGateway ==
  \/ createSession
  \/ listIntegrations
  \/ getConnection
  \/ deleteConnection
  \/ triggerSync

SpecGateway == InitGateway /\ [][NextGateway]_vars

\* ------------------------------------------------------------------------
\* convertNangoCredentials on its own
\* ------------------------------------------------------------------------

\* The raw credential objects handed to the normalizer: each type the switch
\* knows, one it does not and none at all; every field present or every field
\* absent; expires_at absent, an ISO string or a Date; no raw object, an
\* empty one, one with a key of its own, one with a stale oauth_token.
NormalizerInputs ==
  { RawCred(t,
            IF f THEN "at-1" ELSE Undef, IF f THEN "rt-1" ELSE Undef, ex,
            IF f THEN "tok-1" ELSE Undef, IF f THEN "ot-1" ELSE Undef,
            IF f THEN "ots-1" ELSE Undef, IF f THEN "ak-1" ELSE Undef,
            IF f THEN "alice" ELSE Undef, IF f THEN "s3cret" ELSE Undef,
            r[1], r[2]) :
      t \in {"OAUTH2", "OAUTH2_CC", "OAUTH1", "API_KEY", "BASIC", "JWT", Undef},
      f \in BOOLEAN,
      ex \in {Undef, "2025-01-01T00:00:00.000Z"} \cup DateValues,
      r \in { <<FALSE, {}>>, <<TRUE, {}>>, <<TRUE, {<<"scope", "read">>}>>,
              <<TRUE, {<<"oauth_token", "stale">>}>> } }

\* What the call leaves of its argument: the default arm assigns into
\* creds.raw, which is the argument's own raw object when it has one.
ArgumentAfter(c) ==
  IF c.type \notin {"OAUTH2", "OAUTH2_CC", "OAUTH1", "API_KEY", "BASIC"} /\ c.hasRaw
  THEN [c EXCEPT !.raw = ObjectAssign(c.raw, OwnProps(c))]
  ELSE c

InitNormalizer ==
  /\ InitWebhook
  /\ cfg = GatewayOnly
  /\ gw = <<>>
  /\ nangoCredentials \in NormalizerInputs
  /\ normalized = NotConverted

\* creds = convertNangoCredentials(nangoCredentials)
Convert ==
  /\ normalized = NotConverted
  /\ normalized' = convertNangoCredentials(nangoCredentials)
  /\ nangoCredentials' = ArgumentAfter(nangoCredentials)
  /\ UNCHANGED <<webhook, gw>>

NextNormalizer == Convert

SpecNormalizer == InitNormalizer /\ [][NextNormalizer]_vars

\* ------------------------------------------------------------------------
\* Two concurrent deliveries of one auth/creation/success event
\* ------------------------------------------------------------------------

\* A Connection Store with a unique index on connection_id.
UniqueStoreConfigs ==
  [revision : Revisions, connectionService : {"noGet", "full"},
   secretsService : BOOLEAN, nangoService : BOOLEAN, store : {"unique"}]

InitUniqueStore ==
  /\ cfg \in UniqueStoreConfigs
  /\ NothingDelivered
  /\ gw = <<>>
  /\ nangoCredentials = NoCredentials
  /\ normalized = NotConverted

\* The provider API posts an auth/creation/success event with an owner, the
\* one the other delivery carries when that one has arrived already.
DeliverSame(p) ==
  /\ pc[p] = "idle"
  /\ \E body \in Bodies : \E signature \in SignaturesFor(body) :
       /\ body.obj \in CreationObjs
       /\ Truthy(body.obj.endUserId)
       /\ \A q \in Procs \ {p} : pc[q] # "idle" => req[q].body = body
       /\ Receive(p, body, signature)
  /\ prev' = [prev EXCEPT ![p] = NoPrev]

NextConcurrent ==
  \E p \in Procs :
    \/ DeliverSame(p)
    \/ GetConnection(p)
    \/ UpdateExisting(p)
    \/ CreateConnection(p)
    \/ UpdateFallback(p)
    \/ NangoGetConnection(p)
    \/ StoreSecret(p)

SpecConcurrent == InitUniqueStore /\ [][NextConcurrent]_vars

\* ------------------------------------------------------------------------
\* Deliveries of one JSON value in different layouts
\* ------------------------------------------------------------------------

\* Sync events, each as two texts that differ as byte strings.
FormattedBodies ==
  [json : {TRUE},
   obj : { o \in PlainObjs : o.type = "sync" /\ o.operation = Undef },
   text : Formats]

\* The provider API, or someone holding a signature it issued, posts a body.
DeliverFormatted(p) ==
  /\ pc[p] = "idle"
  /\ \E body \in FormattedBodies : \E signature \in SignaturesFor(body) :
       Receive(p, body, signature)
  /\ prev' = [prev EXCEPT ![p] = NoPrev]

NextFormatted ==
  \E p \in Procs :
    \/ DeliverFormatted(p)
    \/ SyncUpdate(p)

SpecFormatted == Init /\ [][NextFormatted]_vars

\* ------------------------------------------------------------------------
\* Deliveries handled one after the other against a store with a unique index
\* ------------------------------------------------------------------------

\* Requests are handled in pairs: the second of a pair arrives once the
\* first has been handled, and a new pair starts once both were answered.
\* A Connection Store that answers every call, with or without a unique index.
ReliableStoreConfigs ==
  [revision : Revisions, connectionService : {"noGet", "full"},
   secretsService : BOOLEAN, nangoService : BOOLEAN, store : {"unique", "appending"}]

InitSequence ==
  /\ cfg \in ReliableStoreConfigs
  /\ NothingDelivered
  /\ gw = <<>>
  /\ nangoCredentials = NoCredentials
  /\ normalized = NotConverted

InOrder(p) == IF p = 1 THEN pc[2] = "idle" ELSE Finished(1)

\* The provider API posts an event and signs it.
DeliverInOrder(p) ==
  /\ pc[p] = "idle"
  /\ InOrder(p)
  /\ Len(connections) < MaxConns
  /\ \E body \in Bodies :
       /\ body.obj \in CreationObjs \cup PlainObjs
       /\ Receive(p, body, Sign(body.obj))
  /\ prev' = [prev EXCEPT ![p] = NoPrev]

\* The route answers a pair of requests, the first one first.
RespondInOrder(p) ==
  /\ IF p = 1 THEN Finished(2) ELSE pc[1] = "idle"
  /\ Respond(p)

NextSequence ==
  \E p \in Procs :
    \/ DeliverInOrder(p)
    \/ RespondInOrder(p)
    \/ GetConnection(p)
    \/ UpdateExisting(p)
    \/ CreateConnection(p)
    \/ UpdateFallback(p)
    \/ NangoGetConnection(p)
    \/ StoreSecret(p)
    \/ AuthFailed(p)
    \/ DeletedStatus(p)
    \/ DeleteSecret(p)
    \/ SyncUpdate(p)

SpecSequence == InitSequence /\ [][NextSequence]_vars

\* ------------------------------------------------------------------------
\* Properties
\* ------------------------------------------------------------------------

\* Delivery p got past JSON.parse, the signature check and the schema.
Accepted(p) ==
  /\ pc[p] # "idle"
  /\ Rejection(cfg, req[p].body, req[p].signature) = Undef

IsCreation(e) == e.type = "auth" /\ e.operation = "creation" /\ e.success = "true"

CallsOf(l, name) == { i \in 1..Len(l) : l[i].call = name }

ConnectionCalls == {"getConnection", "createConnection", "updateConnectionStatus"}

\* Every Connection Store call of l answered without an error.
ConnectionCallsOk(l) == \A i \in 1..Len(l) : l[i].call \in ConnectionCalls => l[i].ok

AuthCreationResult ==
  [status |-> "returned", success |-> TRUE, eventType |-> "auth",
   operation |-> "creation", error |-> Undef]

\* Delivery p repeats an auth/creation/success event with an owner, against a
\* store with getConnection whose calls all succeed, and the first delivery
\* created the connection.
SecondCreationDelivery(p) ==
  /\ prev[p].is
  /\ Accepted(p)
  /\ IsCreation(Event(p))
  /\ Truthy(Event(p).endUserId)
  /\ cfg.connectionService = "full"
  /\ ConnectionCallsOk(prev[p].log)
  /\ CallsOf(prev[p].log, "createConnection") # {}
  /\ ConnectionCallsOk(log[p])

\* C1: the same auth/creation/success event delivered twice in sequence to a
\* working Connection Store with getConnection: createConnection is called
\* once in total, the second delivery calls
\* updateConnectionStatus(connectionId, 'ACTIVE') instead, and the store
\* holds exactly one Connection for the connection id.
C1_IdempotentCreation ==
  \A p \in Procs :
    SecondCreationDelivery(p) =>
      LET id == Event(p).connectionId IN
      /\ Cardinality(CallsOf(prev[p].log, "createConnection"))
           + Cardinality(CallsOf(log[p], "createConnection")) = 1
      /\ pc[p] \notin {"createConnection", "updateFallback", "threw"}
      /\ Cardinality(Matching(connections, id)) = 1
      /\ pc[p] = "done" =>
           \E i \in 1..Len(log[p]) :
             /\ log[p][i].call = "updateConnectionStatus"
             /\ log[p][i].args = <<id, "ACTIVE">>

C1_Witness ==
  \E p \in Procs : SecondCreationDelivery(p) /\ pc[p] = "done"

\* C2: once the body has passed signature verification and schema
\* validation, handleWebhook never throws and returns
\* {success: true, eventType, operation}, whatever store call fails.
C2_TerminalSuccess ==
  \A p \in Procs :
    Accepted(p) =>
      /\ pc[p] # "threw"
      /\ pc[p] = "done" => res[p] = Returned(Event(p))

\* C3: with a verifier configured, a delivery is processed if and only if a
\* signature is present and matches the body; otherwise it is rejected with
\* 'Invalid webhook signature' before any store call.
C3_SignatureEnforced ==
  \A p \in Procs :
    (/\ pc[p] # "idle"
     /\ cfg.nangoService
     /\ req[p].body.json
     /\ WebhookEventSchema(req[p].body.obj)) =>
      IF verifyWebhookSignature(req[p].signature, req[p].body.obj)
      THEN res[p].error # "Invalid webhook signature"
      ELSE res[p] = Thrown("Invalid webhook signature") /\ log[p] = <<>>

\* C4: with no verifier configured, no signature value, present or absent,
\* rejects a delivery: a schema-valid event is dispatched as usual.
C4_UnsecuredMode ==
  \A p \in Procs :
    (/\ pc[p] # "idle"
     /\ ~cfg.nangoService
     /\ req[p].body.json
     /\ WebhookEventSchema(req[p].body.obj)) =>
      /\ res[p].error \notin {"Invalid webhook signature", "ZodError", "SyntaxError"}
      /\ log[p] = <<>> => pc[p] = Dispatch(cfg, req[p].body.obj)

C4_Witness ==
  \E p \in Procs :
    /\ ~cfg.nangoService
    /\ req[p].signature = ZeroSignature
    /\ pc[p] = "done"
    /\ log[p] # <<>>

C7_CreationNeverThrows ==
  \A p \in Procs :
    (Accepted(p) /\ IsCreation(Event(p))) => pc[p] # "threw"

\* C8: on connection.deleted with both stores present, deleteSecret is called
\* whether or not the status update to INACTIVE failed.
C8_DeletedIndependent ==
  \A p \in Procs :
    (/\ Accepted(p)
     /\ Event(p).type = "connection.deleted"
     /\ cfg.connectionService # "none"
     /\ cfg.secretsService
     /\ Finished(p)) =>
      /\ CallsOf(log[p], "updateConnectionStatus") # {}
      /\ CallsOf(log[p], "deleteSecret") # {}

\* The status an event dictates; Undef for the events C9 says nothing about.
MappedStatus(e) ==
  CASE e.type = "sync" /\ e.success = "true" -> "ACTIVE"
    [] e.type = "sync" /\ e.success = "false" -> "ERROR"
    [] e.type = "connection.deleted" -> "INACTIVE"
    [] e.type = "auth" /\ e.success = "false" -> "ERROR"
    [] OTHER -> Undef

\* C9: with a Connection Store, sync success issues
\* updateConnectionStatus(connectionId, 'ACTIVE'), sync failure 'ERROR',
\* connection.deleted 'INACTIVE', auth failure 'ERROR'; a failure of the auth
\* failure update is swallowed and success is returned.
C9_StatusMapping ==
  \A p \in Procs :
    LET e == Event(p)
        l == log[p] IN
    (Accepted(p) /\ cfg.connectionService # "none" /\ MappedStatus(e) # Undef) =>
      /\ l = <<>> => ~Finished(p)
      /\ l # <<>> =>
           /\ l[1].call = "updateConnectionStatus"
           /\ l[1].args = <<e.connectionId, MappedStatus(e)>>
           /\ Cardinality(CallsOf(l, "updateConnectionStatus")) = 1
           /\ l[1].ok =>
                /\ Exists(connections, e.connectionId)
                /\ connections[First(connections, e.connectionId)].status = MappedStatus(e)
      /\ e.type = "auth" =>
           /\ pc[p] # "threw"
           /\ l # <<>> => (pc[p] = "done" /\ res[p] = Returned(e))

C9_Witness ==
  \E p \in Procs :
    /\ Accepted(p)
    /\ Event(p).type = "auth" /\ Event(p).success = "false"
    /\ log[p] # <<>>
    /\ ~log[p][1].ok
    /\ pc[p] = "done"

\* C10: with neither a Connection Store nor a Secrets Store, every
\* schema-valid event returns {success: true, eventType, operation} and no
\* store call and no gateway lookup is made.
C10_GracefulDegradation ==
  \A p \in Procs :
    (/\ Accepted(p)
     /\ cfg.connectionService = "none"
     /\ ~cfg.secretsService) =>
      /\ pc[p] = "done"
      /\ log[p] = <<>>
      /\ res[p] = Returned(Event(p))

C10_Witness ==
  \E p \in Procs :
    /\ Accepted(p)
    /\ cfg.connectionService = "none"
    /\ ~cfg.secretsService
    /\ cfg.nangoService
    /\ cfg.revision = "gateway"
    /\ IsCreation(Event(p))
    /\ Truthy(Event(p).endUserId)

\* The bodies C11 lists: not JSON, or an object lacking type, connectionId,
\* providerConfigKey or provider, or with a type other than the three known.
ListedInvalid(body) ==
  \/ ~body.json
  \/ body.obj.type \notin {"auth", "sync", "connection.deleted"}
  \/ body.obj.connectionId = Undef
  \/ body.obj.providerConfigKey = Undef
  \/ body.obj.provider = Undef

\* C11 as stated: every listed body makes handleWebhook fail with a
\* validation error (a JSON syntax error or a schema error) before any
\* Connection Store, Secrets Store or gateway call.
C11_ValidationErrorAlways ==
  \A p \in Procs :
    (pc[p] # "idle" /\ ListedInvalid(req[p].body)) =>
      /\ pc[p] = "threw"
      /\ res[p].error \in {"SyntaxError", "ZodError"}
      /\ log[p] = <<>>

\* C11 amended: every listed body makes handleWebhook fail before any
\* Connection Store, Secrets Store or gateway call; the error is the JSON
\* syntax error for a body that is not JSON, 'Invalid webhook signature' for a
\* JSON body whose given signature the configured verifier refuses, and the
\* schema error in every other case.
C11_RejectionBeforeSideEffects ==
  \A p \in Procs :
    (pc[p] # "idle" /\ ListedInvalid(req[p].body)) =>
      /\ pc[p] = "threw"
      /\ log[p] = <<>>
      /\ res[p].error =
           IF ~req[p].body.json THEN "SyntaxError"
           ELSE IF /\ cfg.nangoService
                   /\ req[p].signature.given
                   /\ ~verifyWebhookSignature(req[p].signature, req[p].body.obj)
                THEN "Invalid webhook signature"
                ELSE "ZodError"

C11_Witness ==
  \E p \in Procs :
    /\ pc[p] = "threw"
    /\ req[p].body.json
    /\ req[p].body.obj.connectionId = Undef
    /\ cfg.nangoService
    /\ verifyWebhookSignature(req[p].signature, req[p].body.obj)
    /\ cfg.connectionService = "full"
    /\ cfg.secretsService
    /\ res[p].error = "ZodError"

\* Delivery p is an auth/creation/success event with an owner that the
\* gateway revision of the handler has answered with success, with a Secrets
\* Store and the gateway both present.
CaptureCase(p) ==
  /\ Accepted(p)
  /\ IsCreation(Event(p))
  /\ Truthy(Event(p).endUserId)
  /\ cfg.revision = "gateway"
  /\ cfg.secretsService
  /\ cfg.nangoService
  /\ pc[p] = "done"

\* The Connection Store already held the connection: the lookup answered and
\* the status update followed it.
FoundExisting(l) ==
  /\ Len(l) >= 2
  /\ l[1].call = "getConnection" /\ l[1].ok
  /\ l[2].call = "updateConnectionStatus"

\* The gateway is asked once for (connectionId, providerConfigKey); when it
\* answers with credentials, storeSecret is called once with (connectionId,
\* provider, normalized credentials, ownerId, organizationId), and otherwise
\* storeSecret is not called.
Captured(p) ==
  LET e == Event(p)
      l == log[p]
      asked == CallsOf(l, "nango.getConnection")
      stored == CallsOf(l, "storeSecret") IN
  /\ Cardinality(asked) = 1
  /\ \A i \in asked : l[i].args = <<e.connectionId, e.providerConfigKey>>
  /\ IF \E i \in asked : l[i].ok /\ credentials[p].present
     THEN /\ Cardinality(stored) = 1
          /\ \A i \in stored :
               l[i].args = <<e.connectionId, e.provider,
                             convertNangoCredentials(credentials[p]),
                             e.endUserId, e.organizationId>>
     ELSE stored = {}

C13_CredentialFailureContained ==
  \A p \in Procs :
    LET e == Event(p)
        l == log[p] IN
    (/\ Accepted(p)
     /\ IsCreation(e)
     /\ \E i \in CallsOf(l, "nango.getConnection") \cup CallsOf(l, "storeSecret") : ~l[i].ok) =>
      /\ pc[p] = "done"
      /\ res[p] = AuthCreationResult
      /\ \A i \in CallsOf(l, "createConnection") :
           l[i].ok => \E j \in Matching(connections, e.connectionId) :
                        /\ connections[j].status = "ACTIVE"
                        /\ connections[j].owner_id = e.endUserId
                        /\ connections[j].provider = e.providerConfigKey
      /\ \A i \in CallsOf(l, "updateConnectionStatus") :
           l[i].ok => /\ Exists(connections, e.connectionId)
                      /\ connections[First(connections, e.connectionId)].status = "ACTIVE"

C13_Witness ==
  \E p \in Procs :
    /\ Accepted(p)
    /\ IsCreation(Event(p))
    /\ pc[p] = "done"
    /\ \E i \in CallsOf(log[p], "createConnection") : log[p][i].ok
    /\ \E i \in CallsOf(log[p], "storeSecret") : ~log[p][i].ok

\* The Secrets Store holds a ConnectionSecret for connection id.
HasSecret(store, id) == \E s \in store : s.connection_id = id

\* C14: once a connection is deleted, by the DELETE route removing its record
\* or by a connection.deleted webhook that handleWebhook answers with
\* success, no ConnectionSecret remains for its connection id; and the
\* Secrets Store never holds two ConnectionSecrets for one connection id.
C14_SecretLifetime ==
  [][/\ \A id \in ConnIds :
          (Exists(connections, id) /\ ~Exists(connections', id)) =>
            ~HasSecret(secrets', id)
     /\ \A p \in Procs :
          (/\ pc[p] # "done"
           /\ pc'[p] = "done"
           /\ req'[p].body.obj.type = "connection.deleted") =>
            ~HasSecret(secrets', req'[p].body.obj.connectionId)
     /\ \A s, t \in secrets' : s.connection_id = t.connection_id => s = t]_vars

\* C15: no step of a webhook delivery calls deleteConnection or removes a
\* Connection record: every record keeps its place and its connection id and
\* owner, and the status update of connection.deleted changes nothing but
\* the status of one record, to INACTIVE.
C15_NeverHardDeletes ==
  [][/\ Len(connections') >= Len(connections)
     /\ \A i \in 1..Len(connections) :
          /\ connections'[i].connection_id = connections[i].connection_id
          /\ connections'[i].owner_id = connections[i].owner_id
     /\ \A p \in Procs : CallsOf(log'[p], "deleteConnection") = {}
     /\ \A p \in Procs :
          pc[p] = "deletedStatus" =>
            \/ connections' = connections
            \/ \E i \in 1..Len(connections) :
                 connections' = [connections EXCEPT ![i].status = "INACTIVE"]]_vars

C15_Witness ==
  \E p \in Procs :
    /\ Accepted(p)
    /\ Event(p).type = "connection.deleted"
    /\ pc[p] = "done"
    /\ log[p] # <<>>
    /\ log[p][1].call = "updateConnectionStatus" /\ log[p][1].ok
    /\ Exists(connections, Event(p).connectionId)
    /\ connections[First(connections, Event(p).connectionId)].status = "INACTIVE"

\* C16: no NangoService method throws: when the client call of createSession,
\* listIntegrations, getConnection, deleteConnection or triggerSync fails,
\* the method returns null, false or an empty value to its caller.
C16_GatewayNeverThrows ==
  \A i \in 1..Len(gw) :
    /\ gw[i].status = "returned"
    /\ gw[i].failed => gw[i].value.kind \in {"null", "false", "empty"}

\* C17: the POST webhooks route answers a body that fails schema validation
\* or signature verification with status 400 and an {error} object, and
\* answers with status 500 only when handleWebhook failed for another reason.
C17_HttpErrorMapping ==
  \A p \in Procs :
    response[p] # NoResponse =>
      LET rejected == response[p].body.error \in {"ZodError", "Invalid webhook signature"} IN
      /\ rejected => response[p].status = 400
      /\ response[p].status = 500 => ~rejected
      /\ response[p].status \in {400, 500} => Truthy(response[p].body.error)

\* The canonical fields of a Credentials object other than type and raw.
CanonicalFields ==
  {"access_token", "refresh_token", "expires_at", "api_key", "username", "password"}

\* Credentials n has exactly the fields of `set`, with the values of `vals`.
OnlyFields(n, set, vals) ==
  \A k \in CanonicalFields : n[k] = IF k \in set THEN vals[k] ELSE Undef

\* An expires_at as the table wants it: a Date as its ISO-8601 string.
Iso(x) == IF x = "Date(1735689600000)" THEN "2025-01-01T00:00:00.000Z" ELSE x

\* C18: the normalization table. OAUTH2 gives OAUTH2 with access_token,
\* refresh_token and expires_at; OAUTH2_CC gives OAUTH2 with access_token
\* from token and expires_at; OAUTH1 gives OAUTH1 with access_token from
\* oauth_token and both oauth fields in raw; API_KEY gives api_key; BASIC
\* gives username and password; any other type gives CUSTOM with every
\* property of the raw object in raw. No other canonical field is set, and a
\* Date expires_at comes out as its ISO-8601 string.
C18_NormalizationTable ==
  normalized # NotConverted =>
    LET c == nangoCredentials
        n == normalized
        vals == [k \in CanonicalFields |->
                   CASE k = "access_token" ->
                          (CASE c.type = "OAUTH2_CC" -> c.token
                             [] c.type = "OAUTH1" -> c.oauth_token
                             [] OTHER -> c.access_token)
                     [] k = "expires_at" -> Iso(c.expires_at)
                     [] OTHER -> c[k]] IN
    CASE c.type = "OAUTH2" ->
           /\ n.type = "OAUTH2"
           /\ OnlyFields(n, {"access_token", "refresh_token", "expires_at"}, vals)
      [] c.type = "OAUTH2_CC" ->
           /\ n.type = "OAUTH2"
           /\ OnlyFields(n, {"access_token", "expires_at"}, vals)
      [] c.type = "OAUTH1" ->
           /\ n.type = "OAUTH1"
           /\ OnlyFields(n, {"access_token"}, vals)
           /\ <<"oauth_token", c.oauth_token>> \in n.raw
           /\ <<"oauth_token_secret", c.oauth_token_secret>> \in n.raw
      [] c.type = "API_KEY" ->
           /\ n.type = "API_KEY"
           /\ OnlyFields(n, {"api_key"}, vals)
      [] c.type = "BASIC" ->
           /\ n.type = "BASIC"
           /\ OnlyFields(n, {"username", "password"}, vals)
      [] OTHER ->
           /\ n.type = "CUSTOM"
           /\ OnlyFields(n, {}, vals)
           /\ \A k \in CredKeys : c[k] # Undef => <<k, c[k]>> \in n.raw

C18_Witness ==
  /\ normalized # NotConverted
  /\ nangoCredentials.type = "OAUTH2_CC"
  /\ nangoCredentials.expires_at \in DateValues
  /\ nangoCredentials.token = "tok-1"
  /\ normalized.access_token = "tok-1"
  /\ normalized.expires_at = "2025-01-01T00:00:00.000Z"

\* Delivery p is an auth/creation/success event with an owner, handled with
\* a Connection Store and no gateway, the store did not already hold the
\* connection, and the handler is past its createConnection call.
CreationCase(p) ==
  /\ Accepted(p)
  /\ IsCreation(Event(p))
  /\ Truthy(Event(p).endUserId)
  /\ cfg.connectionService # "none"
  /\ ~cfg.nangoService
  /\ ~FoundExisting(log[p])
  /\ pc[p] \in {"updateFallback", "storeSecret", "done"}

\* createConnection has been called exactly once, with (providerConfigKey,
\* connectionId, endUserId, organizationId, metadata).
CreatedWith(p, metadata) ==
  LET e == Event(p)
      created == CallsOf(log[p], "createConnection") IN
  /\ Cardinality(created) = 1
  /\ \A i \in created :
       log[p][i].args = <<e.providerConfigKey, e.connectionId, e.endUserId,
                          e.organizationId, metadata>>

\* C19 as stated: createConnection is called exactly once with
\* (providerConfigKey, connectionId, endUserId, organizationId, metadata),
\* metadata being {environment} when the event has an environment and the
\* empty object otherwise; organizationId is undefined when the event has none.
C19_MetadataWhenPresent ==
  \A p \in Procs :
    CreationCase(p) =>
      CreatedWith(p, IF Event(p).environment # Undef
                     THEN {<<"environment", Event(p).environment>>}
                     ELSE {})

\* C19 amended: the same call, metadata being {environment} when the event's
\* environment is a non-empty string and the empty object when it is absent
\* or the empty string.
C19_MetadataWhenTruthy ==
  \A p \in Procs :
    CreationCase(p) =>
      CreatedWith(p, IF Event(p).environment \notin {Undef, ""}
                     THEN {<<"environment", Event(p).environment>>}
                     ELSE {})

C19_Witness ==
  \E p \in Procs :
    /\ CreationCase(p)
    /\ pc[p] = "done"
    /\ Event(p).environment = ""
    /\ Event(p).organizationId = Undef
    /\ \E i \in CallsOf(log[p], "createConnection") :
         /\ log[p][i].ok
         /\ log[p][i].args = <<"slack-prod", "conn-123", "user-123", Undef, {}>>

\* C20: a connection-expired webhook event is accepted by handleWebhook, and
\* with a Connection Store the handler sets the connection's status to
\* EXPIRED.
C20_ExpiredSetsStatus ==
  \A p \in Procs :
    (/\ pc[p] # "idle"
     /\ req[p].body.json
     /\ req[p].body.obj.type = "connection.expired"
     /\ SignatureAccepted(cfg, req[p].signature, req[p].body.obj)) =>
      /\ pc[p] # "threw"
      /\ (pc[p] = "done" /\ cfg.connectionService # "none") =>
           \E i \in CallsOf(log[p], "updateConnectionStatus") :
             log[p][i].args = <<req[p].body.obj.connectionId, "EXPIRED">>

\* Both deliveries carry an accepted auth/creation/success event with an
\* owner and have ended.
BothEnded ==
  \A p \in Procs :
    /\ Accepted(p)
    /\ IsCreation(Event(p))
    /\ Truthy(Event(p).endUserId)
    /\ Finished(p)

\* C21: with a Connection Store that rejects createConnection for a
\* connection id it holds, two concurrent deliveries of one
\* auth/creation/success event never leave two Connections for the id, and
\* when both have ended exactly one Connection exists, it is ACTIVE, and both
\* deliveries returned {success: true, eventType: 'auth', operation: 'creation'}.
C21_ConcurrentDuplicates ==
  \A id \in ConnIds :
    /\ Cardinality(Matching(connections, id)) <= 1
    /\ (BothEnded /\ \A p \in Procs : Event(p).connectionId = id) =>
         /\ Cardinality(Matching(connections, id)) = 1
         /\ connections[First(connections, id)].status = "ACTIVE"
         /\ \A p \in Procs : pc[p] = "done" /\ res[p] = AuthCreationResult

\* Both deliveries passed the getConnection pre-check before either created.
C21_Witness ==
  /\ BothEnded
  /\ cfg.connectionService = "full"
  /\ \A p \in Procs :
       /\ Len(log[p]) >= 2
       /\ log[p][1].call = "getConnection"
       /\ log[p][2].call = "createConnection"
  /\ \E p \in Procs : ~log[p][2].ok

\* C22: against a Connection Store that does not itself reject duplicates
\* (one without getConnection included), no sequence of deliveries leaves two
\* Connection records with the same connection_id.
C22_ConnectionIdUnique ==
  cfg.store = "unreliable" =>
    \A i, j \in DOMAIN connections :
      connections[i].connection_id = connections[j].connection_id => i = j

\* The signature check of delivery p ran and refused the signature.
SignatureRefused(p) ==
  /\ cfg.nangoService
  /\ req[p].signature.given
  /\ ~verifyWebhookSignature(req[p].signature, req[p].body.obj)

\* C23: the schema parse runs only after the signature check passed or was
\* skipped: a JSON body whose signature is refused and which does not match
\* the schema is rejected with 'Invalid webhook signature' and never
\* dispatched on, and a schema error is only ever reported for a body whose
\* signature check passed or was skipped.
C23_SignatureBeforeSchema ==
  \A p \in Procs :
    (pc[p] # "idle" /\ req[p].body.json) =>
      /\ (SignatureRefused(p) /\ ~WebhookEventSchema(req[p].body.obj)) =>
           /\ res[p] = Thrown("Invalid webhook signature")
           /\ pc[p] = "threw"
           /\ log[p] = <<>>
      /\ res[p] = Thrown("ZodError") => ~SignatureRefused(p)

\* A body failing both checks has been rejected.
C23_Witness ==
  \E p \in Procs :
    /\ pc[p] = "threw"
    /\ req[p].body.json
    /\ SignatureRefused(p)
    /\ ~WebhookEventSchema(req[p].body.obj)

\* C24: the signature is checked against the exact bytes received: with a
\* verifier configured, two bodies that differ as byte strings and parse to
\* the same JSON value are not both accepted under one signature.
C24_SignatureOverExactBytes ==
  \A p, q \in Procs :
    (/\ cfg.nangoService
     /\ pc[p] # "idle" /\ pc[q] # "idle"
     /\ req[p].body.json /\ req[q].body.json
     /\ req[p].body.text # req[q].body.text
     /\ req[p].body.obj = req[q].body.obj
     /\ req[p].signature.given
     /\ req[p].signature = req[q].signature) =>
      ~(Accepted(p) /\ Accepted(q))

\* C25: when the gateway is available, the metadata handed to
\* createConnection holds, besides environment, fields from a gateway lookup
\* for (connectionId, providerConfigKey) made before the call; and when the
\* Connection Store already held the connection, fresh metadata is merged
\* with updateConnection in addition to the ACTIVE status update.
C25_MetadataEnrichment ==
  \A p \in Procs :
    (/\ Accepted(p)
     /\ IsCreation(Event(p))
     /\ Truthy(Event(p).endUserId)
     /\ cfg.nangoService
     /\ cfg.connectionService # "none") =>
      LET l == log[p] IN
      /\ \A i \in CallsOf(l, "createConnection") :
           /\ \E j \in 1..(i - 1) :
                /\ l[j].call = "nango.getConnection"
                /\ l[j].args = <<Event(p).connectionId, Event(p).providerConfigKey>>
           /\ \E kv \in l[i].args[5] : kv[1] # "environment"
      /\ (FoundExisting(l) /\ l[2].ok /\ pc[p] = "done") =>
           CallsOf(l, "updateConnection") # {}

\* C26: convertNangoCredentials never modifies its argument: whatever the
\* raw credential object, one of an unknown type with its own raw field
\* included, the object and its nested raw are the same after the call.
C26_ArgumentUnchanged ==
  [][nangoCredentials' = nangoCredentials]_vars

\* The status an event asks for, Undef for an event that changes none.
Dictated(e) ==
  IF e.type = "connection.deleted" THEN "INACTIVE"
  ELSE IF e.type = "sync" THEN (IF e.success = "true" THEN "ACTIVE" ELSE "ERROR")
  ELSE IF e.success # "true" THEN "ERROR"
  ELSE IF e.operation = "creation" /\ Truthy(e.endUserId) THEN "ACTIVE"
  ELSE Undef

\* Delivery p has been handled and its event asked for a status.
Applied(p) ==
  /\ Finished(p)
  /\ Accepted(p)
  /\ Dictated(Event(p)) # Undef

\* Every record the store holds for id has the status the last handled
\* status-changing event asked for.
FollowsLastEvent(id) ==
  (/\ \A p \in Procs : pc[p] = "idle" \/ Finished(p)
   /\ \A p \in Procs : Applied(p) => Event(p).connectionId = id) =>
    \A i \in Matching(connections, id) :
      IF Applied(2) THEN connections[i].status = Dictated(Event(2))
      ELSE Applied(1) => connections[i].status = Dictated(Event(1))

\* C27 as stated: with deliveries handled one after the other and a
\* Connection Store that applies every update, the stored status for a
\* connection id is the one the last handled status-changing event asked for,
\* whatever came before it; a record set INACTIVE by connection.deleted is set
\* back to ACTIVE by a later sync success or auth/creation/success.
C27_StatusFollowsLastEvent ==
  \A id \in ConnIds : FollowsLastEvent(id)

\* C27 for a Connection Store that offers getConnection or has a unique
\* index on connection_id.
C27_StatusFollowsLastEventOneRecord ==
  \A id \in ConnIds :
    (cfg.connectionService = "full" \/ cfg.store = "unique") =>
      /\ Cardinality(Matching(connections, id)) <= 1
      /\ FollowsLastEvent(id)

\* Delivery p is an accepted sync or auth event that has no success field,
\* handled with a Connection Store.
SuccessAbsent(p) ==
  /\ Accepted(p)
  /\ Event(p).type \in {"sync", "auth"}
  /\ Event(p).success = Undef
  /\ cfg.connectionService # "none"

\* C28: a sync event without success, and an auth event without success
\* whatever its operation, make the handler call
\* updateConnectionStatus(connectionId, 'ERROR'), and make no other call.
C28_AbsentSuccessIsFailure ==
  \A p \in Procs :
    SuccessAbsent(p) =>
      IF log[p] = <<>>
      THEN pc[p] \in {"authFailed", "syncStatus"}
      ELSE /\ Len(log[p]) = 1
           /\ log[p][1].call = "updateConnectionStatus"
           /\ log[p][1].args = <<Event(p).connectionId, "ERROR">>
           /\ Finished(p)

\* An auth/creation event without success has set a stored connection to ERROR.
C28_Witness ==
  \E p \in Procs :
    /\ SuccessAbsent(p)
    /\ Event(p).type = "auth"
    /\ Event(p).operation = "creation"
    /\ pc[p] = "done"
    /\ log[p] # <<>>
    /\ log[p][1].ok
    /\ Exists(connections, Event(p).connectionId)
    /\ connections[First(connections, Event(p).connectionId)].status = "ERROR"

\* Delivery p is an accepted auth event with success: true whose operation is
\* update, deletion or absent.
SuccessNotCreation(p) ==
  /\ Accepted(p)
  /\ Event(p).type = "auth"
  /\ Event(p).success = "true"
  /\ Event(p).operation # "creation"

\* C29: an auth event with success: true whose operation is not creation
\* makes no Connection Store, Secrets Store or gateway call and returns
\* {success: true, eventType: 'auth', operation}.
C29_SuccessNotCreationNoOp ==
  \A p \in Procs :
    SuccessNotCreation(p) =>
      /\ pc[p] = "done"
      /\ log[p] = <<>>
      /\ res[p] = Returned(Event(p))

\* Such an event has been handled for a connection stored with status ERROR.
C29_Witness ==
  \E p \in Procs :
    /\ SuccessNotCreation(p)
    /\ Event(p).operation = "update"
    /\ pc[p] = "done"
    /\ Exists(connections, Event(p).connectionId)
    /\ connections[First(connections, Event(p).connectionId)].status = "ERROR"

\* createConnection and the fallback updateConnectionStatus of delivery p
\* have both failed; the fallback is call number i of the delivery.
BothFailedAt(p, i) ==
  /\ i >= 2 /\ i <= Len(log[p])
  /\ log[p][i - 1].call = "createConnection" /\ ~log[p][i - 1].ok
  /\ log[p][i].call = "updateConnectionStatus" /\ ~log[p][i].ok

\* The first call of the credential step, "done" when the step makes none.
CredentialCall(c, e) ==
  IF CredentialStep(c, e) = "storeSecret" THEN "storeSecret"
  ELSE IF CredentialStep(c, e) = "nangoGetConnection" THEN "nango.getConnection"
  ELSE "done"

====
